---- MODULE Spec2Model ----
(***************************************************************************)
(* Model of the Rivet analysis GbiasInvestigatr (src/GbiasInvestigatr.cc). *)
(*                                                                         *)
(* Units.  Transverse momenta are whole GeV.  Azimuthal angles are whole   *)
(* multiples of pi/16 radians, so PI is 16 and the window half-width PI/8  *)
(* is 2; Rivet's phi() lies in [0, 2 pi), here 0 .. 2*PI-1.  A double      *)
(* written to the table is an exact fraction <<numerator, denominator>>    *)
(* in lowest terms; the angle-valued field Jet1_Ang is such a fraction of  *)
(* the angular unit, JetAngle is in degrees.                               *)
(***************************************************************************)
EXTENDS Integers, Sequences, FiniteSets, TLC

\* ---------------------------------------------------------------- bounds
\* accepted events per run (the value _eventNumber may reach)
MaxEvents == 2
\* reconstructed jets per event
MaxJets == 3

\* ------------------------------------------------------ program constants
GeV == 1
PI == 16

\* ------------------------------------------------------------- inputs
PtValues == {20, 60, 80, 100}
PhiValues == {0, 14, 16, 17}
AbsEtaValues == {0, 2}
WeightValues == {1}

\* a reconstructed jet as the analysis reads it: momentum().pT(), |eta|, momentum().phi()
MkJet(pt, eta, phi) == [pT |-> pt, abseta |-> eta, phi |-> phi]

\* jets inside the pseudorapidity cut at every pT and phi, and one jet outside it
JetSet ==
  {MkJet(pt, 0, phi) : pt \in PtValues, phi \in PhiValues}
    \cup {MkJet(80, eta, 16) : eta \in AbsEtaValues}

\* HepMC heavy-ion block: a null pointer is present = FALSE
NoHion == [present |-> FALSE, event_plane_angle |-> 0, eccentricity |-> 0]
HionValues == {NoHion, [present |-> TRUE, event_plane_angle |-> 3, eccentricity |-> 5]}

\* the projection returns jets ordered by descending pT (strictly, here)
ByPt(js) == \A i \in 1 .. Len(js) - 1 : js[i].pT > js[i + 1].pT

JetLists == UNION {{js \in [1 .. n -> JetSet] : ByPt(js)} : n \in 0 .. MaxJets}

Events == [jets : JetLists, hion : HionValues, weight : WeightValues]

NoEvent == [jets |-> <<>>, hion |-> NoHion, weight |-> 1]

\* ------------------------------------------------------------- doubles
Abs(x) == IF x < 0 THEN -x ELSE x

RECURSIVE GCD(_, _)
GCD(a, b) == IF b = 0 THEN a ELSE GCD(b, a % b)

\* the quotient n/d of two doubles (d > 0), exact
Frac(n, d) == LET g == GCD(Abs(n), d) IN <<n \div g, d \div g>>

Num(x) == Frac(x, 1)

\* ------------------------------------------------- std::map<string,double>
\* variant: a container iterating in order of first insertion
KeyOrder_Inserted ==
  <<"Polar", "JProdR", "Jet1_pT", "Jet2_pT", "JetAngle", "Jet1_Ang", "Aj", "Weight">>

\* the keys the analysis ever inserts, in std::less<std::string> order
KeyOrder ==
  <<"Aj", "JProdR", "Jet1_Ang", "Jet1_pT", "Jet2_pT", "JetAngle", "Polar", "Weight">>

\* m[k] = v : inserts k or overwrites its value
Put(m, k, v) == [x \in (DOMAIN m) \cup {k} |-> IF x = k THEN v ELSE m[x]]

EmptyMap == [x \in {} |-> Num(0)]

\* for(auto const& it : m) : the keys present, in the map's iteration order
Keys(m) == SelectSeq(KeyOrder, LAMBDA k : k \in DOMAIN m)

Values(m) == [i \in 1 .. Len(Keys(m)) |-> m[Keys(m)[i]]]

VARIABLES
  pc,           \* where the framework is in the plugin's lifecycle
  open,         \* _open
  isOpen,       \* _file.is_open()
  file,         \* the lines _file holds, in the order written
  closed,       \* _file.close() has been called
  eventNumber,  \* _eventNumber
  firstPrint,   \* _firstPrint
  toWrite,      \* _toWrite
  event,        \* analyze's parameter
  jetlist,      \* analyze's local jetlist
  j2,           \* analyze's local j2, as its place in jetlist (0: default-constructed)
  jetFound      \* analyze's local jetFound

vars ==
  <<pc, open, isOpen, file, closed, eventNumber, firstPrint, toWrite, event,
    jetlist, j2, jetFound>>

\* ------------------------------------------------------------- selection
\* variant: the pT cut not strict
Cut_Inclusive(j) == j.abseta < 2 /\ j.pT >= 20 * GeV

\* Cuts::abseta < 2.0 && Cuts::pT > 20*GeV
Cut(j) == j.abseta < 2 /\ j.pT > 20 * GeV

\* jetsByPt(cut): the jets passing the cut, order kept
jetsByPt(js) == SelectSeq(js, Cut)

\* fabs(j1.phi() - j.phi())
Ang(a, b) == Abs(a.phi - b.phi)

\* fabs(ang - PI) < PI/8.
InWindow(ang) == Abs(ang - PI) < PI \div 8

\* variant: the threshold itself rejected
LeadTooSoft_Inclusive(j1) == j1.pT <= 80 * GeV

\* reject events with jets whose pT < 80 GeV
LeadTooSoft(j1) == j1.pT < 80 * GeV

\* variant: the jet of the window whose angle to j1 is closest to pi
Scan_Closest(jl, k) ==
  LET S == {i \in k .. Len(jl) : InWindow(Ang(jl[1], jl[i]))}
      D(i) == Abs(Ang(jl[1], jl[i]) - PI)
  IN IF S = {} THEN 0
     ELSE CHOOSE i \in S : \A x \in S : D(i) < D(x) \/ (D(i) = D(x) /\ i <= x)

\* the for loop over jetlist from place k on: the place of the first jet in the
\* window around j1, 0 when the loop ends without a break
RECURSIVE Scan(_, _)
Scan(jl, k) ==
  IF k > Len(jl) THEN 0
  ELSE IF InWindow(Ang(jl[1], jl[k])) THEN k
  ELSE Scan(jl, k + 1)

FindJet(jl) == Scan(jl, 1)

\* variant: the asymmetry relative to the leading jet alone
CalcAj_OverE1(E1, E2) == Frac(E1 - E2, E1)

\* (E1 - E2) / (E1 + E2)
CalcAj(E1, E2) == Frac(E1 - E2, E1 + E2)

\* fabs(j1.phi() - j2.phi())*180/PI
CalcJetAngle(a, b) == Frac(Ang(a, b) * 180, PI)

\* if(hion) { _toWrite["Polar"] = ...; _toWrite["JProdR"] = ...; }
ReadHion(m, h) ==
  IF h.present
    THEN Put(Put(m, "Polar", Num(h.event_plane_angle)), "JProdR", Num(h.eccentricity))
    ELSE m

\* the assignments to _toWrite of an event that passed the selection
Fill(m, a, b, w) ==
  LET m1 == Put(m, "Jet1_pT", Num(a.pT))
      m2 == Put(m1, "Jet2_pT", Num(b.pT))
      m3 == Put(m2, "JetAngle", CalcJetAngle(a, b))
      m4 == Put(m3, "Jet1_Ang", Num(a.phi))
      m5 == Put(m4, "Aj", CalcAj(a.pT, b.pT))
  IN Put(m5, "Weight", Num(w))

\* ------------------------------------------------------------- the writer
HeaderLine(m) == [kind |-> "names", cells |-> Keys(m)]
RowLine(m) == [kind |-> "values", cells |-> Values(m)]

\* variant: the names branch lost, every call writes values
print_ValuesOnly(var, o, f, m) == IF ~o THEN f ELSE Append(f, RowLine(m))

\* print(var) on a stream holding f, with is_open() = o, and _toWrite = m
print(var, o, f, m) ==
  IF ~o THEN f
  ELSE IF var THEN Append(f, HeaderLine(m))
  ELSE Append(f, RowLine(m))

\* variant: _firstPrint never consulted, the names written with every row
WriteOut_AlwaysHeader(first, o, f, m) == print(FALSE, o, print(TRUE, o, f, m), m)

\* the tail of analyze once the selection has passed: header on the first print,
\* the event counter, the row
WriteOut(first, o, f, m) ==
  LET f1 == IF first THEN print(TRUE, o, f, m) ELSE f
  IN print(FALSE, o, f1, m)

\* variant: finalize closes the stream unconditionally
ShouldClose_Always(o) == TRUE

\* finalize closes the stream when _open is set
ShouldClose(o) == o

\* ------------------------------------------------------------- lifecycle
\* after construction: the scalar members are not initialised, the map is empty,
\* the stream is closed
Init ==
  /\ pc = "constructed"
  /\ open \in BOOLEAN
  /\ firstPrint \in BOOLEAN
  /\ eventNumber \in {0, 1}
  /\ isOpen = FALSE
  /\ file = <<>>
  /\ closed = FALSE
  /\ toWrite = EmptyMap
  /\ event = NoEvent
  /\ jetlist = <<>>
  /\ j2 = 0
  /\ jetFound = FALSE

\* init(): _file.open succeeds or fails
init ==
  /\ pc = "constructed"
  /\ \E ok \in BOOLEAN :
       /\ isOpen' = ok
       /\ open' = ok
  /\ eventNumber' = 0
  /\ firstPrint' = TRUE
  /\ pc' = "ready"
  /\ UNCHANGED <<file, closed, toWrite, event, jetlist, j2, jetFound>>

\* the framework calls analyze with the next event of the run
NextEvent ==
  /\ pc = "ready"
  /\ eventNumber < MaxEvents
  /\ \E e \in Events : event' = e
  /\ pc' = "analyze"
  /\ UNCHANGED <<open, isOpen, file, closed, eventNumber, firstPrint, toWrite,
                 jetlist, j2, jetFound>>

\* vetoEvent: return from analyze, with _toWrite as it stands
Veto(m, jl) ==
  /\ toWrite' = m
  /\ jetlist' = jl
  /\ pc' = "analyzed"
  /\ UNCHANGED <<open, isOpen, file, closed, eventNumber, firstPrint, event, j2, jetFound>>

\* analyze(event)
analyze ==
  /\ pc = "analyze"
  /\ LET m0 == ReadHion(toWrite, event.hion)
         jl == jetsByPt(event.jets)
     IN IF Len(jl) > 1
          THEN IF LeadTooSoft(jl[1])
                 THEN Veto(m0, jl)
                 ELSE LET k == FindJet(jl)
                      IN IF k = 0
                           THEN Veto(m0, jl)
                           ELSE LET m == Fill(m0, jl[1], jl[k], event.weight)
                                IN /\ toWrite' = m
                                   /\ jetlist' = jl
                                   /\ j2' = k
                                   /\ jetFound' = TRUE
                                   /\ file' = WriteOut(firstPrint, isOpen, file, m)
                                   /\ firstPrint' = FALSE
                                   /\ eventNumber' = eventNumber + 1
                                   /\ pc' = "analyzed"
                                   /\ UNCHANGED <<open, isOpen, closed, event>>
          ELSE Veto(m0, jl)

\* analyze returns to the framework: its parameter and locals are gone
Return ==
  /\ pc = "analyzed"
  /\ event' = NoEvent
  /\ jetlist' = <<>>
  /\ j2' = 0
  /\ jetFound' = FALSE
  /\ pc' = "ready"
  /\ UNCHANGED <<open, isOpen, file, closed, eventNumber, firstPrint, toWrite>>

\* finalize()
finalize ==
  /\ pc = "ready"
  /\ IF ShouldClose(open)
       THEN isOpen' = FALSE /\ closed' = TRUE
       ELSE UNCHANGED <<isOpen, closed>>
  /\ pc' = "finalized"
  /\ UNCHANGED <<open, file, eventNumber, firstPrint, toWrite, event, jetlist, j2, jetFound>>

Next == init \/ NextEvent \/ analyze \/ Return \/ finalize

Spec == Init /\ [][Next]_vars

\* ============================================================== claims
\* The selection, restated from the event alone.

\* the event's jets with |eta| < 2.0 and pT > 20 GeV, in the order delivered
Qualifying(e) == SelectSeq(e.jets, LAMBDA j : j.abseta < 2 /\ j.pT > 20)

\* |phi(a) - phi(b)| lies within pi/8 of pi
BackToBack(a, b) == 8 * Abs(Abs(a.phi - b.phi) - PI) < PI

\* at least 2 qualifying jets, the leading one at 80 GeV or more, and some
\* qualifying jet back to back with it
Accepted(e) ==
  LET q == Qualifying(e)
  IN /\ Len(q) >= 2
     /\ q[1].pT >= 80
     /\ \E i \in 1 .. Len(q) : BackToBack(q[1], q[i])

HeaderCount(f) == Cardinality({i \in DOMAIN f : f[i].kind = "names"})

\* analyze has just handled an event that passed the selection
JustAccepted == pc = "analyzed" /\ jetFound

\* f2 is f with exactly one line of values added at its end
RowAppended(f, f2) ==
  /\ Len(f2) > Len(f)
  /\ SubSeq(f2, 1, Len(f)) = f
  /\ f2[Len(f2)].kind = "values"
  /\ HeaderCount(f2) + Len(f) + 1 - HeaderCount(f) = Len(f2)

\* ---------------------------------------------------------------- C1
C1_Step_Original ==
  pc = "analyze" =>
    IF Accepted(event) THEN RowAppended(file, file') ELSE file' = file

\* C1 as stated: every event passed to analyze appends a row if and only if it
\* has 2 or more qualifying jets, a leading jet of 80 GeV or more and a
\* qualifying jet back to back with it; every other event leaves the table
\* unchanged.
C1_Original == [][C1_Step_Original]_vars

C1_Step ==
  pc = "analyze" =>
    IF Accepted(event) /\ isOpen THEN RowAppended(file, file') ELSE file' = file

\* C1 amended: with the sink open, analyze appends a row exactly for the events
\* that pass the selection (2 or more qualifying jets, leading pT >= 80 GeV, a
\* qualifying jet within pi/8 of pi from the leading one); every other event,
\* and every event when the sink is not open, leaves the table unchanged.
C1_RowIffAccepted == [][C1_Step]_vars

\* an accepted event has added its row behind an earlier one
C1_Witness ==
  /\ JustAccepted
  /\ Accepted(event)
  /\ isOpen
  /\ Len(file) = 3
  /\ Len(Qualifying(event)) = 3

\* ---------------------------------------------------------------- C2
HeaderInv ==
  /\ HeaderCount(file) <= 1
  /\ file # <<>> => file[1].kind = "names"

\* the step of analyze: an accepted event finding no header writes header then
\* row; any other event leaves the header as it is
HeaderStep(sinkOk) ==
  pc = "analyze" =>
    IF Accepted(event) /\ sinkOk /\ HeaderCount(file) = 0
      THEN /\ Len(file') = Len(file) + 2
           /\ file'[Len(file) + 1] = [kind |-> "names", cells |-> Keys(toWrite')]
           /\ file'[Len(file) + 2].kind = "values"
      ELSE /\ HeaderCount(file') = HeaderCount(file)
           /\ file # <<>> => file'[1] = file[1]
           /\ Accepted(event) /\ sinkOk => HeaderCount(file') = 1

\* C2 as stated: the header is written exactly once if an event is accepted,
\* during the first accepted event and before its row, and never otherwise or
\* again.
C2_Original == []HeaderInv /\ [][HeaderStep(TRUE)]_vars

\* C2 amended: with the sink open, the header is written exactly once if at
\* least one event is accepted and never otherwise, during the first accepted
\* event, before that event's row and every other row, and no later event
\* writes it again, whatever fields that event populates; with the sink not
\* open no header is written.
C2_HeaderOnce == []HeaderInv /\ [][HeaderStep(isOpen)]_vars

\* a second accepted event with more fields than the header names
C2_Witness ==
  /\ JustAccepted
  /\ Len(file) = 3
  /\ HeaderCount(file) = 1
  /\ Len(file[1].cells) < Len(file[3].cells)

\* ---------------------------------------------------------------- C3
\* C3: when init fails to open the sink, nothing is ever written, analyze still
\* handles every event (selecting and counting as usual) and finalize does not
\* close the stream.
C3_FailedSinkWritesNothing ==
  pc # "constructed" /\ ~open =>
    /\ file = <<>>
    /\ ~isOpen
    /\ ~closed
    /\ pc = "analyzed" => (jetFound <=> Accepted(event))
    /\ pc = "analyzed" /\ jetFound => eventNumber >= 1

\* a run with a failed sink, two accepted events, finalized
C3_Witness ==
  /\ pc = "finalized"
  /\ ~open
  /\ eventNumber = 2
  /\ file = <<>>

\* ---------------------------------------------------------------- C4
\* C4 as stated: the Record is fresh for each event, so after an accepted
\* event without heavy-ion data Polar and JProdR are unset, and the row
\* written holds no value of an earlier event.
C4_FreshRecord ==
  JustAccepted /\ ~event.hion.present =>
    /\ "Polar" \notin DOMAIN toWrite
    /\ "JProdR" \notin DOMAIN toWrite
    /\ isOpen => Len(file[Len(file)].cells) = 6

\* ---------------------------------------------------------------- C5
\* C5 as stated: once the header is written every row has the header's fields,
\* in its order: the same number of columns, each value under its own name.
C5_RowsMatchHeader ==
  /\ \A i \in 2 .. Len(file) : Len(file[i].cells) = Len(file[1].cells)
  /\ JustAccepted /\ isOpen => file[1].cells = Keys(toWrite)

\* ---------------------------------------------------------------- C6
InsertionOrder ==
  <<"Polar", "JProdR", "Jet1_pT", "Jet2_pT", "JetAngle", "Jet1_Ang", "Aj", "Weight">>

AlphabeticalOrder ==
  <<"Aj", "JProdR", "Jet1_Ang", "Jet1_pT", "Jet2_pT", "JetAngle", "Polar", "Weight">>

\* the row just written gives the Record's values in this order, and so does the
\* header when this event wrote it
ListedInOrder(order) ==
  JustAccepted /\ event.hion.present /\ isOpen =>
    /\ DOMAIN toWrite = {order[i] : i \in 1 .. Len(order)}
    /\ file[Len(file)].cells = [i \in 1 .. Len(order) |-> toWrite[order[i]]]
    /\ Len(file) = 2 => file[1].cells = order

\* C6 as stated: for an accepted event with heavy-ion data the header and the
\* row list the fields in the order Polar, JProdR, Jet1_pT, Jet2_pT, JetAngle,
\* Jet1_Ang, Aj, Weight.
C6_Original == ListedInOrder(InsertionOrder)

\* C6 amended: for an accepted event with heavy-ion data the row, and the
\* header when that event writes it, list the fields in the map's key order:
\* Aj, JProdR, Jet1_Ang, Jet1_pT, Jet2_pT, JetAngle, Polar, Weight.
C6_KeyOrder == ListedInOrder(AlphabeticalOrder)

\* the first accepted event carries heavy-ion data and has written header and row
C6_Witness ==
  /\ JustAccepted
  /\ event.hion.present
  /\ isOpen
  /\ Len(file) = 2

\* ---------------------------------------------------------------- C7
\* the qualifying jets are 100 GeV at phi = 0 and 60 GeV at phi = pi
C7_Event ==
  /\ pc = "analyzed"
  /\ Len(Qualifying(event)) = 2
  /\ Qualifying(event)[1].pT = 100 /\ Qualifying(event)[1].phi = 0
  /\ Qualifying(event)[2].pT = 60 /\ Qualifying(event)[2].phi = PI

C7_Record(aj) ==
  C7_Event =>
    /\ jetFound
    /\ {"Jet1_pT", "Jet2_pT", "Aj", "JetAngle", "Jet1_Ang"} \subseteq DOMAIN toWrite
    /\ toWrite["Jet1_pT"] = <<100, 1>>
    /\ toWrite["Jet2_pT"] = <<60, 1>>
    /\ toWrite["Aj"] = aj
    /\ toWrite["JetAngle"] = <<180, 1>>
    /\ toWrite["Jet1_Ang"] = <<0, 1>>
    /\ isOpen => file[Len(file)].cells = Values(toWrite)

\* C7 as stated: that event is accepted with Jet1_pT = 100, Jet2_pT = 60,
\* Aj = 0.2 (1/5), JetAngle = 180 and Jet1_Ang = 0.
C7_Original == C7_Record(<<1, 5>>)

\* C7 amended: that event is accepted with Jet1_pT = 100, Jet2_pT = 60,
\* Aj = (100 - 60)/(100 + 60) = 0.25 (1/4), JetAngle = 180 and Jet1_Ang = 0.
C7_Example == C7_Record(<<1, 4>>)

C7_Witness == C7_Event /\ jetFound /\ isOpen /\ Len(event.jets) = 3

\* ---------------------------------------------------------------- C8
\* the table is empty, or a header followed by one row per counted event
TableShape ==
  pc # "constructed" /\ open =>
    /\ Len(file) = (IF eventNumber = 0 THEN 0 ELSE eventNumber + 1)
    /\ file # <<>> => file[1].kind = "names"
    /\ \A i \in 2 .. Len(file) : file[i].kind = "values"

\* an accepted event is counted and its row, the values of its Record, goes to
\* the end of the table, behind the header naming exactly the Record's fields
\* when it is the first; a rejected event is not counted and writes nothing
TableStep ==
  pc = "analyze" /\ open =>
    IF Accepted(event)
      THEN /\ eventNumber' = eventNumber + 1
           /\ toWrite'["Jet1_pT"] = <<Qualifying(event)[1].pT, 1>>
           /\ toWrite'["Jet1_Ang"] = <<Qualifying(event)[1].phi, 1>>
           /\ toWrite'["Weight"] = <<event.weight, 1>>
           /\ LET row == [kind |-> "values", cells |-> Values(toWrite')]
                  names == [kind |-> "names", cells |-> Keys(toWrite')]
              IN /\ file' = (IF file = <<>> THEN <<names, row>> ELSE Append(file, row))
                 /\ Len(names.cells) = Cardinality(DOMAIN toWrite')
                 /\ {names.cells[i] : i \in 1 .. Len(names.cells)} = DOMAIN toWrite'
      ELSE eventNumber' = eventNumber /\ file' = file

\* no other step touches the table or the counter
TableKept == pc \in {"ready", "analyzed"} => file' = file /\ eventNumber' = eventNumber

\* C8: with the sink open, N >= 1 accepted events leave exactly N+1 lines: the
\* header naming exactly the fields, then the rows of the accepted events in
\* the order processed; the event counter is N.
C8_TableLines == []TableShape /\ [][TableStep /\ TableKept]_vars

\* a finished run with two accepted events and three lines
C8_Witness ==
  /\ pc = "finalized"
  /\ open
  /\ eventNumber = 2
  /\ Len(file) = 3
  /\ file[2] # file[3]

C10_RowRanges ==
  JustAccepted =>
    /\ isOpen => file[Len(file)].cells = Values(toWrite)
    /\ toWrite["Jet1_pT"][2] = 1 /\ toWrite["Jet2_pT"][2] = 1
    /\ toWrite["Jet1_pT"][1] >= 80
    /\ toWrite["Jet2_pT"][1] > 20
    /\ toWrite["Jet2_pT"][1] <= toWrite["Jet1_pT"][1]
    /\ toWrite["Jet1_pT"][1] + toWrite["Jet2_pT"][1] > 0
    /\ toWrite["Aj"][2] > 0
    /\ 0 <= toWrite["Aj"][1]
    /\ toWrite["Aj"][1] < toWrite["Aj"][2]
    /\ toWrite["Aj"][1] * (toWrite["Jet1_pT"][1] + toWrite["Jet2_pT"][1])
         = toWrite["Aj"][2] * (toWrite["Jet1_pT"][1] - toWrite["Jet2_pT"][1])

\* a row with the leading jet at the 80 GeV threshold
C10_Witness ==
  /\ JustAccepted
  /\ isOpen
  /\ toWrite["Jet1_pT"] = <<80, 1>>
  /\ toWrite["Jet2_pT"] = <<60, 1>>

====
